---- MODULE Spec2Model ----
(***************************************************************************)
(* Face enrollment and recognition backend (backend/main.py).              *)
(*                                                                         *)
(* The state is the local SQLite store (persons, embeddings,               *)
(* group_members), the process-wide extractor handle face_app, the         *)
(* in-memory group-membership cache and the wall clock.  Every HTTP        *)
(* handler is one action.  Two history variables, call and resp, hold the  *)
(* last request (with what the handler observed: extractor output,         *)
(* resolved members, loaded rows) and the last response.  A third,         *)
(* changed_at, holds for each group the time of the last committed change  *)
(* of its membership; the specifications that do not follow it leave it    *)
(* at its initial value.                                                   *)
(*                                                                         *)
(* Handlers are plain def functions, which the server runs on the threads  *)
(* of a pool.  The specifications about concurrent requests split a        *)
(* handler at the points where another thread can run in between; pc       *)
(* holds for each thread the step it is at and its locals.  events is      *)
(* the event list of the report a request names.                           *)
(*                                                                         *)
(* Numbers.  float32 values are fixed-point integers: a real r is the      *)
(* integer r * Scale.  Time in the membership cache is in whole seconds;   *)
(* the elapsed time of the per-face loop is in tenths of a second.         *)
(***************************************************************************)
EXTENDS Integers, Sequences, FiniteSets, TLC

\* ---------------------------------------------------------------- bounds
MaxRows == 2
MaxFaces == 2
MaxTime == 60
Scale == 100
MaxBatch == 20
MaxDirectRows == 5
MaxEvents == 4

\* ------------------------------------------------------ program constants
\* FACE_SIM_THRESHOLD default "0.42", in hundredths
THRESHOLD == 42
\* the 0.7 s budget of the per-face loop, in tenths of a second
TIME_BUDGET == 7
_GROUP_MEMBERS_TTL_SECONDS == 60

\* ------------------------------------------------------------ input sets
PersonIds == {"alice", "bob"}
PersonNames == {"Ann"}
GroupIds == {"g1"}
NoGroup == "None"
\* clock advance between two readings of time.time(), in seconds
ClockSteps == {0, 60}
\* time.time() advance over one iteration of the per-face loop, in tenths
FaceDurations == {2, 7}

\* --------------------------------------------------------------- vectors
Abs(x) == IF x < 0 THEN -x ELSE x

RECURSIVE SqrtSearch(_, _, _)
SqrtSearch(n, lo, hi) ==
    IF lo >= hi THEN lo
    ELSE LET mid == (lo + hi + 1) \div 2
         IN  IF mid * mid <= n THEN SqrtSearch(n, mid, hi)
             ELSE SqrtSearch(n, lo, mid - 1)

\* np.linalg.norm, rounded down to the fixed-point grid
norm(vec) == SqrtSearch(vec[1] * vec[1] + vec[2] * vec[2], 0, Abs(vec[1]) + Abs(vec[2]))

\* vec / (norm + 1e-12): the epsilon only matters for the zero vector,
\* which it maps to the zero vector
l2_normalize(vec) ==
    LET n == norm(vec)
    IN  IF n = 0 THEN <<0, 0>>
        ELSE <<(vec[1] * Scale) \div n, (vec[2] * Scale) \div n>>

\* one row of enrolled_mat @ emb
dot(a, b) == (a[1] * b[1] + a[2] * b[2]) \div Scale

\* ------------------------------------------------------- extractor output
\* What face_app.get returns for the images of the model: each face has a
\* bounding box, an embedding, eye landmarks (kps, <<>> when absent) and the
\* pixel statistics of its crop (sharpness, brightness, contrast).
FaceIds == {"fa", "fb", "fc"}
\* faces at the edge of the frame, whose box the detector extends beyond the
\* image: to the left, to the right, and wholly outside
EdgeFaceIds == {"fd", "fe", "ff"}

GoodCrop == [sharpness |-> 400, brightness |-> 130, contrast |-> 50]

Face(id) ==
    CASE id = "fa" -> [bbox |-> <<0, 0, 200, 200>>, normed_embedding |-> <<100, 0>>,
                       kps |-> <<>>, crop |-> GoodCrop]
      [] id = "fb" -> [bbox |-> <<300, 0, 500, 200>>, normed_embedding |-> <<42, 91>>,
                       kps |-> <<<<350, 80>>, <<450, 80>>>>, crop |-> GoodCrop]
      [] id = "fc" -> [bbox |-> <<520, 300, 600, 380>>, normed_embedding |-> <<41, 91>>,
                       kps |-> <<<<540, 320>>, <<580, 340>>>>, crop |-> GoodCrop]
      [] id = "fd" -> [bbox |-> <<-20, 100, 110, 300>>, normed_embedding |-> <<0, 100>>,
                       kps |-> <<>>, crop |-> GoodCrop]
      [] id = "fe" -> [bbox |-> <<500, 100, 700, 300>>, normed_embedding |-> <<60, 80>>,
                       kps |-> <<>>, crop |-> GoodCrop]
      [] id = "ff" -> [bbox |-> <<650, 100, 800, 300>>, normed_embedding |-> <<80, 60>>,
                       kps |-> <<>>, crop |-> GoodCrop]

ImageSize == <<640, 480>>
WholeImage == [sharpness |-> 200, brightness |-> 120, contrast |-> 40]

\* an image is the sequence of the faces the extractor finds in it, each
\* face at most once
RECURSIVE DistinctSeqs(_, _)
DistinctSeqs(S, n) ==
    IF n = 0 THEN {<<>>}
    ELSE LET shorter == DistinctSeqs(S, n - 1)
             longest == {t \in shorter : Len(t) = n - 1}
         IN  shorter \cup
             {Append(p[1], p[2]) :
                 p \in {q \in longest \X S : \A i \in 1..Len(q[1]) : q[1][i] # q[2]}}

Images == DistinctSeqs(FaceIds, MaxFaces)

\* face_app.get(img)
face_app_get(image) == [i \in 1..Len(image) |-> Face(image[i])]

\* img_pil.crop(box): the pixel statistics of the region
Crop(image, box) ==
    IF \E i \in 1..Len(image) : Face(image[i]).bbox = box
    THEN Face(CHOOSE id \in FaceIds \cup EdgeFaceIds : Face(id).bbox = box).crop
    ELSE WholeImage

\* -------------------------------------------------- photo quality helpers
Min(a, b) == IF a < b THEN a ELSE b
Max(a, b) == IF a > b THEN a ELSE b

\* abs(degrees(arctan2(dy, dx))) > 10, decided without the angle itself:
\* tan(10 degrees) = 0.17633
RollOver10(dx, dy) ==
    IF dx < 0 THEN TRUE ELSE Abs(dy) * 100000 > 17633 * dx

NoRoll == [defined |-> FALSE, over10 |-> FALSE]

_compute_quality_metrics(image, face_bbox, kps) ==
    LET w == ImageSize[1]
        h == ImageSize[2]
        x1 == Max(0, Min(w, face_bbox[1]))
        x2 == Max(0, Min(w, face_bbox[3]))
        y1 == Max(0, Min(h, face_bbox[2]))
        y2 == Max(0, Min(h, face_bbox[4]))
        gray == IF x2 <= x1 \/ y2 <= y1 THEN WholeImage
                ELSE Crop(image, face_bbox)
        dx == kps[2][1] - kps[1][1]
        dy == kps[2][2] - kps[1][2]
    IN  [face_width_px |-> x2 - x1,
         sharpness |-> gray.sharpness,
         brightness |-> gray.brightness,
         contrast |-> gray.contrast,
         roll_abs |-> IF Len(kps) >= 2 /\ dx # 0
                      THEN [defined |-> TRUE, over10 |-> RollOver10(dx, dy)]
                      ELSE NoRoll]

\* a gate whose limits are exclusive
_quality_pass_exclusive(metrics) ==
    LET r1 == IF metrics.face_width_px <= 120 THEN <<"Face too small (<120 px)">> ELSE <<>>
        r2 == IF metrics.sharpness <= 100 THEN <<"Too blurry (low sharpness)">> ELSE <<>>
        r3 == IF ~(60 < metrics.brightness /\ metrics.brightness < 200)
              THEN <<"Lighting issue (too dark/bright)">> ELSE <<>>
        r4 == IF metrics.contrast <= 30 THEN <<"Low contrast">> ELSE <<>>
        r5 == IF metrics.roll_abs.defined /\ metrics.roll_abs.over10
              THEN <<"Turn head straighter (reduce roll)">> ELSE <<>>
    IN  [ok |-> r1 \o r2 \o r3 \o r4 = <<>>, reasons |-> r1 \o r2 \o r3 \o r4 \o r5]

\* a gate that a roll over 10 degrees fails
_quality_pass_roll_gates(metrics) ==
    LET r1 == IF metrics.face_width_px < 120 THEN <<"Face too small (<120 px)">> ELSE <<>>
        r2 == IF metrics.sharpness < 100 THEN <<"Too blurry (low sharpness)">> ELSE <<>>
        r3 == IF ~(60 <= metrics.brightness /\ metrics.brightness <= 200)
              THEN <<"Lighting issue (too dark/bright)">> ELSE <<>>
        r4 == IF metrics.contrast < 30 THEN <<"Low contrast">> ELSE <<>>
        r5 == IF metrics.roll_abs.defined /\ metrics.roll_abs.over10
              THEN <<"Turn head straighter (reduce roll)">> ELSE <<>>
    IN  [ok |-> r1 \o r2 \o r3 \o r4 \o r5 = <<>>, reasons |-> r1 \o r2 \o r3 \o r4 \o r5]

_quality_pass(metrics) ==
    LET r1 == IF metrics.face_width_px < 120 THEN <<"Face too small (<120 px)">> ELSE <<>>
        r2 == IF metrics.sharpness < 100 THEN <<"Too blurry (low sharpness)">> ELSE <<>>
        r3 == IF ~(60 <= metrics.brightness /\ metrics.brightness <= 200)
              THEN <<"Lighting issue (too dark/bright)">> ELSE <<>>
        r4 == IF metrics.contrast < 30 THEN <<"Low contrast">> ELSE <<>>
        r5 == IF metrics.roll_abs.defined /\ metrics.roll_abs.over10
              THEN <<"Turn head straighter (reduce roll)">> ELSE <<>>
    IN  [ok |-> r1 \o r2 \o r3 \o r4 = <<>>, reasons |-> r1 \o r2 \o r3 \o r4 \o r5]

\* ----------------------------------------------------------------- state
VARIABLES face_app, persons, embeddings, group_members, _group_members_cache,
          now, call, resp, changed_at, pc, events

vars == <<face_app, persons, embeddings, group_members, _group_members_cache,
          now, call, resp, changed_at, pc, events>>

store == <<persons, embeddings, group_members>>

NoFilter == [given |-> FALSE, ids |-> {}]
NoMetrics == [face_width_px |-> 0, sharpness |-> 0, brightness |-> 0, contrast |-> 0,
              roll_abs |-> NoRoll]
NoCacheEntry == [present |-> FALSE, at |-> 0, members |-> {}]

\* the last request and what its handler observed while serving it
NoCall == [ready |-> FALSE, person_id |-> "", person_name |-> "", image |-> <<>>,
           selected |-> 0, filter_ids |-> NoFilter, group_id |-> NoGroup,
           durs |-> <<>>, resolved |-> NoFilter, enrolled |-> <<>>, processed |-> 0,
           kps |-> <<>>, metrics |-> NoMetrics, supabase |-> "None", found |-> FALSE,
           photos |-> <<>>, remote_ok |-> FALSE, member_person_ids |-> <<>>]

\* no membership change of the group has been committed yet: far enough in
\* the past for any cached entry to have expired
NeverChanged == [g \in GroupIds |-> -_GROUP_MEMBERS_TTL_SECONDS]

\* the threads of the pool that serve concurrent requests
Threads == {"t1", "t2"}

\* a thread that is serving no request
NoThread == [at |-> "idle", group_id |-> NoGroup, t |-> 0, members |-> {},
             rows |-> <<>>, todo |-> <<>>, fa |-> "None"]

\* everything outside the sequential handlers
aside == <<changed_at, pc, events>>

\* no request is being served
Idle == resp.op = "none"

Response(op, status, detail) ==
    [op |-> op, status |-> status, detail |-> detail, faces |-> <<>>,
     metrics |-> NoMetrics, reasons |-> <<>>]

Init ==
    /\ face_app = "None"
    /\ persons = {}
    /\ embeddings = <<>>
    /\ group_members = {}
    /\ _group_members_cache = [g \in GroupIds |-> NoCacheEntry]
    /\ now = 0
    /\ call = NoCall
    /\ resp = Response("none", 0, "")
    /\ changed_at = NeverChanged
    /\ pc = [th \in Threads |-> NoThread]
    /\ events = <<>>

\* ------------------------------------------------------------------ init
\* POST /init: builds the extractor when there is none yet; ok is whether
\* FaceAnalysis(...) and prepare(...) succeed
init(ok) ==
    /\ Idle
    /\ face_app' = IF face_app = "None" /\ ok THEN "FaceAnalysis" ELSE face_app
    /\ resp' = IF face_app = "None" /\ ~ok
               THEN Response("init", 500, "Failed to init FaceAnalysis")
               ELSE Response("init", 200, "ready")
    /\ call' = [NoCall EXCEPT !.ready = face_app # "None"]
    /\ UNCHANGED <<persons, embeddings, group_members, _group_members_cache, now>>

\* ---------------------------------------------------------------- enroll
area(f) == (f.bbox[3] - f.bbox[1]) * (f.bbox[4] - f.bbox[2])

\* faces.sort(key=area, reverse=True): a stable sort, so faces of equal area
\* keep their original order.  The result is the sorted list of indices.
RECURSIVE InsertByArea(_, _, _)
InsertByArea(faces, sorted, i) ==
    IF sorted = <<>> THEN <<i>>
    ELSE IF area(faces[Head(sorted)]) >= area(faces[i])
         THEN <<Head(sorted)>> \o InsertByArea(faces, Tail(sorted), i)
         ELSE <<i>> \o sorted

RECURSIVE SortByAreaDesc(_, _)
SortByAreaDesc(faces, n) ==
    IF n = 0 THEN <<>>
    ELSE InsertByArea(faces, SortByAreaDesc(faces, n - 1), n)

\* an unstable choice: the last face among those of the largest area
largest_face_last(faces) ==
    CHOOSE s \in 1..Len(faces) :
        /\ \A j \in 1..Len(faces) : area(faces[j]) <= area(faces[s])
        /\ \A j \in (s + 1)..Len(faces) : area(faces[j]) < area(faces[s])

\* index (in the extractor's order) of faces[0] after the sort
largest_face(faces) == Head(SortByAreaDesc(faces, Len(faces)))

\* INSERT OR REPLACE in the place of INSERT OR IGNORE
insert_or_replace_person(person_id, person_name) ==
    {r \in persons : r.person_id # person_id} \cup
    {[person_id |-> person_id, person_name |-> person_name, email |-> "NULL"]}

\* INSERT OR IGNORE INTO persons(person_id, person_name)
insert_or_ignore_person(person_id, person_name) ==
    IF \E r \in persons : r.person_id = person_id THEN persons
    ELSE persons \cup {[person_id |-> person_id, person_name |-> person_name,
                        email |-> "NULL"]}

\* a write that keeps one embedding for each person
replace_embedding(person_id, emb) ==
    Append(SelectSeq(embeddings, LAMBDA row : row.person_id # person_id),
           [person_id |-> person_id, embedding |-> emb])

\* INSERT INTO embeddings(person_id, embedding, created_at): rows keep the
\* order of their AUTOINCREMENT id
insert_embedding(person_id, emb) ==
    Append(embeddings, [person_id |-> person_id, embedding |-> emb])

\* a connection that commits every statement as it runs
autocommit(reached, before, after) == after

\* conn.commit(): the statements of a connection take effect together when
\* commit is reached; a connection dropped before that rolls them back
commit(reached, before, after) == IF reached THEN after ELSE before

\* the same failure surfacing as a server error
enroll_no_face_500 == Response("enroll", 500, "No face detected")

\* if not faces: raise HTTPException(status_code=400, detail="No face detected")
enroll_no_face == Response("enroll", 400, "No face detected")

\* a gate that lets every face through
enroll_never_rejected(passed) == FALSE

\* if not passed: raise ...
enroll_rejected(passed) == ~passed

\* POST /enroll.  stored is whether the INSERT INTO embeddings succeeds; when
\* it raises, the handler ends before conn.commit() and answers 500.
enroll(person_id, person_name, image, stored) ==
    LET c == [NoCall EXCEPT !.ready = face_app # "None", !.person_id = person_id,
                            !.person_name = person_name, !.image = image]
        faces == face_app_get(image)
        sel == largest_face(faces)
        face == faces[sel]
        emb == l2_normalize(face.normed_embedding)
        metrics == _compute_quality_metrics(image, face.bbox, face.kps)
        quality == _quality_pass(metrics)
    IN  /\ Idle
        /\ IF face_app = "None"
           THEN /\ resp' = Response("enroll", 400, "Service not initialized")
                /\ call' = c
                /\ UNCHANGED <<face_app, persons, embeddings, group_members,
                               _group_members_cache, now>>
           ELSE IF faces = <<>>
           THEN /\ resp' = enroll_no_face
                /\ call' = c
                /\ UNCHANGED <<face_app, persons, embeddings, group_members,
                               _group_members_cache, now>>
           ELSE IF enroll_rejected(quality.ok)
           THEN /\ resp' = [Response("enroll", 400, "Photo quality too low for enrollment")
                               EXCEPT !.metrics = metrics, !.reasons = quality.reasons]
                /\ call' = [c EXCEPT !.selected = sel]
                /\ UNCHANGED <<face_app, persons, embeddings, group_members,
                               _group_members_cache, now>>
           ELSE /\ Len(embeddings) < MaxRows
                /\ persons' = commit(stored, persons,
                                     insert_or_ignore_person(person_id, person_name))
                /\ embeddings' = IF stored THEN insert_embedding(person_id, emb)
                                  ELSE embeddings
                /\ resp' = IF stored THEN Response("enroll", 200, "enrolled")
                           ELSE Response("enroll", 500, "Internal Server Error")
                /\ call' = [c EXCEPT !.selected = sel]
                /\ UNCHANGED <<face_app, group_members, _group_members_cache, now>>

\* ------------------------------------------------------------- recognize
\* Python truthiness of Optional[List[str]]: None and [] are both false
Truthy(filter_ids) == filter_ids.given /\ filter_ids.ids # {}

load_embeddings(filter_ids) ==
    IF Truthy(filter_ids)
    THEN SelectSeq(embeddings, LAMBDA row : row.person_id \in filter_ids.ids)
    ELSE embeddings

\* a cache whose entries live one tick longer: (now - cached[0]) <= TTL
get_group_members_cached_late(group_id, t) ==
    LET cached == _group_members_cache[group_id]
        members == {m[2] : m \in {x \in group_members : x[1] = group_id}}
    IN  IF cached.present /\ (t - cached.at) <= _GROUP_MEMBERS_TTL_SECONDS
        THEN [members |-> cached.members, cache |-> _group_members_cache]
        ELSE [members |-> members,
              cache |-> [_group_members_cache EXCEPT
                            ![group_id] = [present |-> TRUE, at |-> t, members |-> members]]]

\* the member list returned, and the cache afterwards; t is time.time()
get_group_members_cached(group_id, t) ==
    LET cached == _group_members_cache[group_id]
        members == {m[2] : m \in {x \in group_members : x[1] = group_id}}
    IN  IF cached.present /\ (t - cached.at) < _GROUP_MEMBERS_TTL_SECONDS
        THEN [members |-> cached.members, cache |-> _group_members_cache]
        ELSE [members |-> members,
              cache |-> [_group_members_cache EXCEPT
                            ![group_id] = [present |-> TRUE, at |-> t, members |-> members]]]

\* a list comprehension [Op(x) for x in s]
RECURSIVE MapSeq(_, _)
MapSeq(Op(_), s) ==
    IF s = <<>> THEN <<>> ELSE <<Op(Head(s))>> \o MapSeq(Op, Tail(s))

\* the last index of the maximum
argmax_last(sims) ==
    CHOOSE i \in 1..Len(sims) :
        /\ \A j \in 1..Len(sims) : sims[j] <= sims[i]
        /\ \A j \in (i + 1)..Len(sims) : sims[j] < sims[i]

\* np.argmax: the first index of the maximum
argmax(sims) ==
    CHOOSE i \in 1..Len(sims) :
        /\ \A j \in 1..Len(sims) : sims[j] <= sims[i]
        /\ \A j \in 1..(i - 1) : sims[j] < sims[i]

\* best_score > THRESHOLD: the boundary value excluded
above_threshold(best_score) == best_score * 100 > THRESHOLD * Scale

\* best_score >= THRESHOLD, the score in fixed point and THRESHOLD in hundredths
reaches_threshold(best_score) == best_score * 100 >= THRESHOLD * Scale

\* (time.time() - start_time) > 0.7: one more face at the boundary
budget_exceeded(elapsed) == elapsed > TIME_BUDGET

\* (time.time() - start_time) >= 0.7
budget_spent(elapsed) == elapsed >= TIME_BUDGET

\* the per-face loop, from face i on; durs[i] is the time the clock advances
\* over iteration i
RECURSIVE match_faces(_, _, _, _, _, _, _)
match_faces(faces, durs, enrolled_ids, enrolled_mat, i, results, elapsed) ==
    IF i > Len(faces) THEN [results |-> results, processed |-> i - 1]
    ELSE LET f == faces[i]
             emb == l2_normalize(f.normed_embedding)
             sims == MapSeq(LAMBDA row : dot(row, emb), enrolled_mat)
             best_idx == argmax(sims)
             best_score == sims[best_idx]
             \* second_score is computed here and never read
             match == [person_id |-> enrolled_ids[best_idx],
                       confidence |-> best_score,
                       box |-> [x |-> f.bbox[1], y |-> f.bbox[2],
                                width |-> f.bbox[3] - f.bbox[1],
                                height |-> f.bbox[4] - f.bbox[2]]]
             out == IF reaches_threshold(best_score) THEN Append(results, match)
                    ELSE results
             spent == elapsed + durs[i]
         IN  IF budget_spent(spent) THEN [results |-> out, processed |-> i]
             ELSE match_faces(faces, durs, enrolled_ids, enrolled_mat, i + 1, out, spent)

\* whether recognize falls back to the group: not filter_ids and req.group_id
uses_group(filter_ids, group_id) == ~Truthy(filter_ids) /\ group_id # NoGroup

\* an empty outcome reported as an error
recognize_not_found == Response("recognize", 404, "No match")

\* return {"faces": []}
recognize_empty == Response("recognize", 200, "ok")

\* POST /recognize.  t is the clock when the group is resolved.  The report
\* bookkeeping (report_id, timestamp) is not part of this model.
recognize(req_filter_ids, req_group_id, image, durs, t) ==
    LET c == [NoCall EXCEPT !.ready = face_app # "None", !.filter_ids = req_filter_ids,
                            !.group_id = req_group_id, !.image = image]
        faces == face_app_get(image)
        grouped == uses_group(req_filter_ids, req_group_id)
        looked == get_group_members_cached(req_group_id, t)
        filter_ids == IF grouped THEN [given |-> TRUE, ids |-> looked.members]
                      ELSE req_filter_ids
        enrolled == load_embeddings(filter_ids)
        enrolled_ids == MapSeq(LAMBDA row : row.person_id, enrolled)
        enrolled_mat == MapSeq(LAMBDA row : l2_normalize(row.embedding), enrolled)
        loop == match_faces(faces, durs, enrolled_ids, enrolled_mat, 1, <<>>, 0)
    IN  /\ Idle
        /\ (face_app # "None" /\ faces # <<>> /\ grouped) \/ t = now
        /\ IF face_app = "None"
           THEN /\ resp' = Response("recognize", 400, "Service not initialized")
                /\ call' = c
                /\ UNCHANGED <<face_app, persons, embeddings, group_members,
                               _group_members_cache, now>>
           ELSE IF faces = <<>>
           THEN /\ resp' = recognize_empty
                /\ call' = c
                /\ UNCHANGED <<face_app, persons, embeddings, group_members,
                               _group_members_cache, now>>
           ELSE /\ IF grouped
                   THEN /\ now' = t
                        /\ _group_members_cache' = looked.cache
                   ELSE UNCHANGED <<now, _group_members_cache>>
                /\ IF enrolled = <<>>
                   THEN /\ resp' = recognize_empty
                        /\ call' = [c EXCEPT !.resolved = filter_ids]
                   ELSE /\ resp' = [Response("recognize", 200, "ok") EXCEPT
                                       !.faces = loop.results]
                        /\ call' = [c EXCEPT !.resolved = filter_ids, !.enrolled = enrolled,
                                             !.durs = durs, !.processed = loop.processed]
                /\ UNCHANGED <<face_app, persons, embeddings, group_members>>

\* ------------------------------------------ handlers that only read a photo
\* {"x": x1, "y": y1, "width": x2 - x1, "height": y2 - y1}
box_of(f) == [x |-> f.bbox[1], y |-> f.bbox[2],
              width |-> f.bbox[3] - f.bbox[1], height |-> f.bbox[4] - f.bbox[2]]

not_initialized(op) == Response(op, 400, "Service not initialized")

\* POST /detect
detect(image) ==
    LET c == [NoCall EXCEPT !.ready = face_app # "None", !.image = image]
        faces == face_app_get(image)
    IN  /\ Idle
        /\ call' = c
        /\ resp' = IF face_app = "None" THEN not_initialized("detect")
                   ELSE [Response("detect", 200, "ok") EXCEPT
                            !.faces = MapSeq(LAMBDA f : box_of(f), faces)]
        /\ UNCHANGED <<face_app, persons, embeddings, group_members,
                       _group_members_cache, now>>

\* POST /photo/quality.  The whole body is inside try ... except Exception,
\* which also catches the handler's own HTTPException and raises
\* HTTPException(500, str(e)) in its place.
photo_quality(image) ==
    LET c == [NoCall EXCEPT !.ready = face_app # "None", !.image = image]
        faces == face_app_get(image)
        sel == largest_face(faces)
        f == faces[sel]
        metrics == _compute_quality_metrics(image, f.bbox, f.kps)
        quality == _quality_pass(metrics)
    IN  /\ Idle
        /\ IF face_app = "None"
           THEN /\ resp' = Response("photo_quality", 500, "400: Service not initialized")
                /\ call' = c
           ELSE IF faces = <<>>
           THEN /\ resp' = Response("photo_quality", 200, "No face detected")
                /\ call' = c
           ELSE /\ resp' = [Response("photo_quality", 200,
                                     IF quality.ok THEN "passed" ELSE "failed")
                               EXCEPT !.metrics = metrics, !.reasons = quality.reasons]
                /\ call' = [c EXCEPT !.selected = sel, !.kps = f.kps]
        /\ UNCHANGED <<face_app, persons, embeddings, group_members,
                       _group_members_cache, now>>

\* POST /embedding: the embedding of the largest face, not stored
get_embedding(image) ==
    LET c == [NoCall EXCEPT !.ready = face_app # "None", !.image = image]
        faces == face_app_get(image)
        sel == largest_face(faces)
        emb == l2_normalize(faces[sel].normed_embedding)
    IN  /\ Idle
        /\ IF face_app = "None"
           THEN /\ resp' = not_initialized("get_embedding")
                /\ call' = c
           ELSE IF faces = <<>>
           THEN /\ resp' = Response("get_embedding", 400, "No face detected")
                /\ call' = c
           ELSE /\ resp' = [Response("get_embedding", 200, "ok") EXCEPT
                               !.faces = <<[embedding |-> emb]>>]
                /\ call' = [c EXCEPT !.selected = sel]
        /\ UNCHANGED <<face_app, persons, embeddings, group_members,
                       _group_members_cache, now>>

\* max(0, 1 - abs(arctan2(dy, dx)) / (pi / 4)) in hundredths, for the eye
\* geometries of the faces of this model: level eyes, and dy / dx = 1 / 2
\* (arctan = 0.4636 rad)
angle_score(kps) ==
    IF Len(kps) < 2 \/ kps[1] = kps[2] THEN 100
    ELSE LET dx == kps[2][1] - kps[1][1]
             dy == kps[2][2] - kps[1][2]
         IN  CASE dy = 0 /\ dx > 0 -> 100
               [] dx > 0 /\ 2 * Abs(dy) = dx -> 41

\* POST /validate-face: a 0-100 score from the share of the image the largest
\* face takes and from the eye angle
validate_face(image) ==
    LET c == [NoCall EXCEPT !.ready = face_app # "None", !.image = image]
        faces == face_app_get(image)
        sel == largest_face(faces)
        f == faces[sel]
        img_area == ImageSize[1] * ImageSize[2]
        size_score == Min(100, (area(f) * 20 * 100) \div img_area)
        quality_score == (size_score * 40 + angle_score(f.kps) * 30 + 3000) \div 100
        quality == IF quality_score >= 70 THEN "excellent"
                   ELSE IF quality_score >= 40 THEN "good" ELSE "poor"
    IN  /\ Idle
        /\ IF face_app = "None"
           THEN /\ resp' = not_initialized("validate_face")
                /\ call' = c
           ELSE IF faces = <<>>
           THEN /\ resp' = [Response("validate_face", 200, "poor") EXCEPT
                               !.faces = <<[score |-> 0, face_count |-> 0]>>]
                /\ call' = c
           ELSE /\ resp' = [Response("validate_face", 200, quality) EXCEPT
                               !.faces = <<[score |-> quality_score,
                                            face_count |-> Len(faces)]>>]
                /\ call' = [c EXCEPT !.selected = sel, !.kps = f.kps]
        /\ UNCHANGED <<face_app, persons, embeddings, group_members,
                       _group_members_cache, now>>

\* POST /process-video-frame, for a request without report_id: the boxes of
\* the faces of the frame
process_video_frame(image) ==
    LET c == [NoCall EXCEPT !.ready = face_app # "None", !.image = image]
        faces == face_app_get(image)
    IN  /\ Idle
        /\ call' = c
        /\ resp' = IF face_app = "None" THEN not_initialized("process_video_frame")
                   ELSE [Response("process_video_frame", 200, "ok") EXCEPT
                            !.faces = MapSeq(LAMBDA f : box_of(f), faces)]
        /\ UNCHANGED <<face_app, persons, embeddings, group_members,
                       _group_members_cache, now>>

\* ------------------------------------------------- person and group rows
\* SELECT person_id FROM group_members WHERE group_id = ?
Members(rows, g) == {m[2] : m \in {x \in rows : x[1] = g}}

\* POST /group/add: INSERT OR IGNORE INTO group_members
add_member(group_id, person_id) ==
    /\ Idle
    /\ group_members' = group_members \cup {<<group_id, person_id>>}
    /\ resp' = Response("add_member", 200, "ok")
    /\ call' = [NoCall EXCEPT !.person_id = person_id, !.group_id = group_id]
    /\ UNCHANGED <<face_app, persons, embeddings, _group_members_cache, now>>

\* POST /group/remove
remove_member(group_id, person_id) ==
    /\ Idle
    /\ group_members' = group_members \ {<<group_id, person_id>>}
    /\ resp' = Response("remove_member", 200, "ok")
    /\ call' = [NoCall EXCEPT !.person_id = person_id, !.group_id = group_id]
    /\ UNCHANGED <<face_app, persons, embeddings, _group_members_cache, now>>

\* a delete that removes the person row and the memberships only
delete_person_row_only(person_id) ==
    /\ Idle
    /\ group_members' = {m \in group_members : m[2] # person_id}
    /\ persons' = {r \in persons : r.person_id # person_id}
    /\ resp' = Response("delete_person", 200, "ok")
    /\ call' = [NoCall EXCEPT !.person_id = person_id]
    /\ UNCHANGED <<face_app, embeddings, _group_members_cache, now>>

\* POST /person/delete: embeddings, memberships, then the person row
delete_person(person_id) ==
    /\ Idle
    /\ embeddings' = SelectSeq(embeddings, LAMBDA row : row.person_id # person_id)
    /\ group_members' = {m \in group_members : m[2] # person_id}
    /\ persons' = {r \in persons : r.person_id # person_id}
    /\ resp' = Response("delete_person", 200, "ok")
    /\ call' = [NoCall EXCEPT !.person_id = person_id]
    /\ UNCHANGED <<face_app, _group_members_cache, now>>

\* POST /group/delete: the memberships of the group (the groups row itself
\* is not part of the model)
delete_group(group_id) ==
    /\ Idle
    /\ group_members' = {m \in group_members : m[1] # group_id}
    /\ resp' = Response("delete_group", 200, "ok")
    /\ call' = [NoCall EXCEPT !.group_id = group_id]
    /\ UNCHANGED <<face_app, persons, embeddings, _group_members_cache, now>>

\* POST /person: INSERT OR REPLACE INTO persons(person_id, person_name); the
\* replaced row loses its other columns
create_person(person_id, person_name) ==
    /\ Idle
    /\ persons' = {r \in persons : r.person_id # person_id} \cup
                  {[person_id |-> person_id, person_name |-> person_name, email |-> "NULL"]}
    /\ resp' = Response("create_person", 200, "ok")
    /\ call' = [NoCall EXCEPT !.person_id = person_id, !.person_name = person_name]
    /\ UNCHANGED <<face_app, embeddings, group_members, _group_members_cache, now>>

\* POST /person/update: UPDATE persons SET person_name, email, ... WHERE
\* person_id; when no row matched, INSERT the person with the same values.
\* email stands for the columns beside the name.
update_person(person_id, person_name, email) ==
    /\ Idle
    /\ persons' = {r \in persons : r.person_id # person_id} \cup
                  {[person_id |-> person_id, person_name |-> person_name, email |-> email]}
    /\ resp' = Response("update_person", 200, "ok")
    /\ call' = [NoCall EXCEPT !.person_id = person_id, !.person_name = person_name]
    /\ UNCHANGED <<face_app, embeddings, group_members, _group_members_cache, now>>

\* POST /clear: every table is emptied; the membership cache is left alone
clear ==
    /\ Idle
    /\ embeddings' = <<>>
    /\ persons' = {}
    /\ group_members' = {}
    /\ resp' = Response("clear", 200, "cleared")
    /\ call' = NoCall
    /\ UNCHANGED <<face_app, _group_members_cache, now>>

\* ------------------------------------------- writers fed by the remote store
\* supabase is the module-level client, "None" when the credentials are
\* absent.  What the remote service answers is an input of each call.

\* embedding / norm if norm > 0
normalize_if_nonzero(embedding) ==
    IF norm(embedding) > 0
    THEN <<(embedding[1] * Scale) \div norm(embedding),
           (embedding[2] * Scale) \div norm(embedding)>>
    ELSE embedding

\* a loop over all of req.photos
RECURSIVE photo_embeddings_uncapped(_, _)
photo_embeddings_uncapped(photos, idx) ==
    IF idx > Len(photos) THEN <<>>
    ELSE LET faces == face_app_get(photos[idx])
             rest == photo_embeddings_uncapped(photos, idx + 1)
         IN  IF faces = <<>> THEN rest
             ELSE <<l2_normalize(faces[Head(SortByAreaDesc(faces, Len(faces)))].normed_embedding)>>
                  \o rest

\* the loop over req.photos[:4]: one embedding for each photo in which the
\* extractor finds a face, taken from its largest face
RECURSIVE photo_embeddings(_, _)
photo_embeddings(photos, idx) ==
    IF idx > Len(photos) \/ idx > 4 THEN <<>>
    ELSE LET faces == face_app_get(photos[idx])
             rest == photo_embeddings(photos, idx + 1)
         IN  IF faces = <<>> THEN rest
             ELSE <<normalize_if_nonzero(faces[largest_face(faces)].normed_embedding)>>
                  \o rest

\* for embedding in embeddings: INSERT INTO embeddings (person_id, embedding)
RECURSIVE insert_all(_, _, _)
insert_all(rows, person_id, embs) ==
    IF embs = <<>> THEN rows
    ELSE insert_all(Append(rows, [person_id |-> person_id, embedding |-> Head(embs)]),
                    person_id, Tail(embs))

\* POST /enroll_person_direct.  remote_ok is whether every call to the remote
\* service and every local statement succeeds; any exception, the handler's
\* own HTTPException(400) included, is caught and answered as 500.
enroll_person_direct(supabase, person_id, photos, remote_ok) ==
    LET c == [NoCall EXCEPT !.ready = face_app # "None", !.person_id = person_id,
                            !.supabase = supabase, !.found = TRUE, !.photos = photos,
                            !.remote_ok = remote_ok]
        embs == photo_embeddings(photos, 1)
        kept == SelectSeq(embeddings, LAMBDA row : row.person_id # person_id)
        fails == \/ supabase = "None"
                 \/ face_app = "None"
                 \/ Len(photos) < 4
                 \/ embs = <<>>
                 \/ ~remote_ok
    IN  /\ Idle
        /\ call' = c
        /\ IF fails
           THEN /\ resp' = Response("enroll_person_direct", 500,
                              IF supabase = "None" THEN "Supabase not initialized"
                              ELSE IF face_app = "None" THEN "Face recognition not initialized"
                              ELSE IF Len(photos) < 4 THEN "400: At least 4 photos required"
                              ELSE IF embs = <<>>
                              THEN "400: No valid face embeddings could be generated"
                              ELSE "remote or local write failed")
                /\ UNCHANGED embeddings
           ELSE /\ Len(kept) + Len(embs) <= MaxDirectRows
                /\ embeddings' = insert_all(kept, person_id, embs)
                /\ resp' = Response("enroll_person_direct", 200, "enrolled")
        /\ UNCHANGED <<face_app, persons, group_members, _group_members_cache, now>>

\* POST /process_pending_enrollment.  pending is the row of the remote
\* pending_enrollments table ("None" when there is none); person_id is the
\* uuid4 the handler draws, which no stored row carries yet.
process_pending_enrollment(supabase, pending, person_id, remote_ok) ==
    LET c == [NoCall EXCEPT !.ready = face_app # "None", !.person_id = person_id,
                            !.supabase = supabase, !.found = pending.found,
                            !.photos = pending.photo_urls, !.remote_ok = remote_ok]
        photos == pending.photo_urls
        embs == photo_embeddings(photos, 1)
        fails == \/ supabase = "None"
                 \/ face_app = "None"
                 \/ ~pending.found
                 \/ Len(photos) < 4
                 \/ embs = <<>>
                 \/ ~remote_ok
    IN  /\ Idle
        /\ \A i \in 1..Len(embeddings) : embeddings[i].person_id # person_id
        /\ \A r \in persons : r.person_id # person_id
        /\ call' = c
        /\ IF fails
           THEN /\ resp' = Response("process_pending_enrollment", 500,
                              IF supabase = "None" THEN "Supabase not initialized"
                              ELSE IF face_app = "None" THEN "Face recognition not initialized"
                              ELSE IF ~pending.found THEN "404: Pending enrollment not found"
                              ELSE IF Len(photos) < 4
                              THEN "400: Not enough photos in pending enrollment"
                              ELSE IF embs = <<>>
                              THEN "400: No valid face embeddings could be generated"
                              ELSE "remote or local write failed")
                /\ UNCHANGED embeddings
           ELSE /\ Len(embeddings) + Len(embs) <= MaxRows
                /\ embeddings' = insert_all(embeddings, person_id, embs)
                /\ resp' = Response("process_pending_enrollment", 200, "accepted")
        /\ UNCHANGED <<face_app, persons, group_members, _group_members_cache, now>>

\* the rows sync inserts: for each member in turn, the embeddings the remote
\* face_embeddings table holds for it, stored as they come
RECURSIVE insert_remote(_, _, _)
insert_remote(rows, member_person_ids, remote_embeddings) ==
    IF member_person_ids = <<>> THEN rows
    ELSE insert_remote(insert_all(rows, Head(member_person_ids),
                                  remote_embeddings[Head(member_person_ids)]),
                       Tail(member_person_ids), remote_embeddings)

\* POST /sync_group_embeddings.  remote is what the remote tables hold for
\* the group: whether it exists, its member ids, each member's embeddings.
sync_group_embeddings(supabase, group_id, remote, remote_ok) ==
    LET c == [NoCall EXCEPT !.group_id = group_id, !.supabase = supabase,
                            !.found = remote.found, !.remote_ok = remote_ok,
                            !.member_person_ids = remote.member_person_ids]
        ids == {remote.member_person_ids[i] : i \in 1..Len(remote.member_person_ids)}
        kept == SelectSeq(embeddings, LAMBDA row : row.person_id \notin ids)
        synced == insert_remote(kept, remote.member_person_ids, remote.embeddings)
    IN  /\ Idle
        /\ call' = c
        /\ IF supabase = "None"
           THEN /\ resp' = Response("sync_group_embeddings", 500, "Supabase not initialized")
                /\ UNCHANGED <<embeddings, group_members, _group_members_cache>>
           ELSE IF ~remote_ok
           THEN /\ resp' = Response("sync_group_embeddings", 500, "Failed to sync embeddings")
                /\ UNCHANGED <<embeddings, group_members, _group_members_cache>>
           ELSE IF ~remote.found
           THEN /\ resp' = Response("sync_group_embeddings", 200, "Group not found")
                /\ UNCHANGED <<embeddings, group_members, _group_members_cache>>
           ELSE IF remote.member_person_ids = <<>>
           THEN /\ resp' = Response("sync_group_embeddings", 200, "No members in group")
                /\ UNCHANGED <<embeddings, group_members, _group_members_cache>>
           ELSE /\ Len(synced) <= MaxRows
                /\ group_members' = {m \in group_members : m[1] # group_id} \cup
                                    {<<group_id, p>> : p \in ids}
                /\ embeddings' = synced
                /\ _group_members_cache' =
                      [_group_members_cache EXCEPT ![group_id] = NoCacheEntry]
                /\ resp' = Response("sync_group_embeddings", 200, "synced")
        /\ UNCHANGED <<face_app, persons, now>>

\* the client takes the response: the handler has returned
reply ==
    /\ ~Idle
    /\ resp' = Response("none", 0, "")
    /\ call' = NoCall
    /\ UNCHANGED <<face_app, persons, embeddings, group_members, _group_members_cache, now>>

\* ------------------------------------------------------- report events
\* Requests that carry a report_id and a timestamp also append to the event
\* list of the report; events is that list for one report.

\* _iou(b1, b2) >= 0.5 for two boxes given as x, y, width, height
iou_at_least_half(b1, b2) ==
    LET x1 == Max(b1.x, b2.x)
        y1 == Max(b1.y, b2.y)
        x2 == Min(b1.x + b1.width, b2.x + b2.width)
        y2 == Min(b1.y + b1.height, b2.y + b2.height)
        inter == Max(0, x2 - x1) * Max(0, y2 - y1)
        denom == b1.width * b1.height + b2.width * b2.height - inter
    IN  inter > 0 /\ denom > 0 /\ 2 * inter >= denom

\* the events recognize appends: one for each face it reports
recognized_events(results, ts) ==
    [k \in 1..Len(results) |->
        [timestamp |-> ts, type |-> "recognized", box |-> results[k].box]]

\* POST /recognize with report_id and timestamp
recognize_reported(image, durs, ts) ==
    /\ recognize(NoFilter, NoGroup, image, durs, now)
    /\ Len(events) + Len(image) <= MaxEvents
    /\ events' = events \o recognized_events(resp'.faces, ts)

\* the loop of process_video_frame over the faces, from face i on: a face
\* is recorded as detected unless one of the last 50 events is a recognized
\* one of the same timestamp whose box overlaps it
RECURSIVE detected_events(_, _, _, _)
detected_events(faces, i, evs, ts) ==
    IF i > Len(faces) THEN evs
    ELSE LET recent == SubSeq(evs, Max(1, Len(evs) - 49), Len(evs))
             should_save_unknown ==
                 ~\E k \in 1..Len(recent) :
                     /\ recent[k].timestamp = ts
                     /\ recent[k].type = "recognized"
                     /\ iou_at_least_half(box_of(faces[i]), recent[k].box)
         IN  detected_events(faces, i + 1,
                             IF should_save_unknown
                             THEN Append(evs, [timestamp |-> ts, type |-> "detected",
                                               box |-> box_of(faces[i])])
                             ELSE evs,
                             ts)

\* POST /process-video-frame with report_id and timestamp
process_video_frame_reported(image, ts) ==
    /\ process_video_frame(image)
    /\ Len(events) + Len(image) <= MaxEvents
    /\ events' = IF face_app = "None" THEN events
                 ELSE detected_events(face_app_get(image), 1, events, ts)

\* ---------------------------------------------------- concurrent requests
\* POST /init on a thread of the pool, split where another thread can run:
\* after the test of face_app, and between the construction of the
\* extractor and its assignment to the global.

\* the FaceAnalysis object a thread constructs: a new object each time
Instance(th) == IF th = "t1" THEN "FaceAnalysis" ELSE "FaceAnalysis2"

\* if face_app is None:
none_yet == face_app = "None"

init_test(th) ==
    /\ pc[th].at = "idle"
    /\ pc' = [pc EXCEPT ![th].at = IF none_yet THEN "construct" ELSE "idle"]
    /\ UNCHANGED <<face_app, persons, embeddings, group_members, _group_members_cache,
                   now, call, resp>>

\* fa = FaceAnalysis(...); fa.prepare(...): ok is whether both succeed.  A
\* failure is answered as 500 and leaves the global as it is.
init_construct(th, ok) ==
    /\ pc[th].at = "construct"
    /\ pc' = [pc EXCEPT ![th] = IF ok THEN [NoThread EXCEPT !.at = "install",
                                                           !.fa = Instance(th)]
                                  ELSE NoThread]
    /\ UNCHANGED <<face_app, persons, embeddings, group_members, _group_members_cache,
                   now, call, resp>>

\* face_app = fa; init_db(); return {"status": "ready"}
init_install(th) ==
    /\ pc[th].at = "install"
    /\ face_app' = pc[th].fa
    /\ pc' = [pc EXCEPT ![th] = NoThread]
    /\ UNCHANGED <<persons, embeddings, group_members, _group_members_cache,
                   now, call, resp>>

\* POST /sync_group_embeddings on a thread, for a remote group that has
\* members.  Every get_conn() opens a connection of its own on a database in
\* WAL mode: a SELECT of another connection reads the last committed state,
\* and one connection at a time holds the write lock, from its first write
\* statement to its commit.  embeddings and group_members are the committed
\* tables; the rows a connection has written and not committed are in pc.

\* a connection holds the write lock
writing == \E th \in Threads : pc[th].at \in {"inserting", "commit"}

\* a connection in autocommit mode: every statement is visible at once
read_uncommitted(committed, pending) == pending

\* what the other connections see of the table after a statement of an open
\* transaction
read_committed(committed, pending) == committed

\* INSERT OR REPLACE INTO groups; DELETE FROM group_members WHERE group_id;
\* the INSERTs of the members; DELETE FROM embeddings WHERE person_id IN (...)
sync_delete(th, group_id, remote) ==
    LET ids == {remote.member_person_ids[i] : i \in 1..Len(remote.member_person_ids)}
        kept == SelectSeq(embeddings, LAMBDA row : row.person_id \notin ids)
    IN  /\ pc[th].at = "idle"
        /\ ~writing
        /\ remote.found /\ remote.member_person_ids # <<>>
        /\ pc' = [pc EXCEPT ![th] = [NoThread EXCEPT !.at = "inserting",
                                                      !.group_id = group_id,
                                                      !.members = ids,
                                                      !.rows = kept,
                                                      !.todo = remote.member_person_ids]]
        /\ embeddings' = read_committed(embeddings, kept)
        /\ UNCHANGED <<face_app, persons, group_members, _group_members_cache,
                       now, call, resp>>

\* one turn of for person_id in member_person_ids: the remote embeddings of
\* the member are fetched and inserted
sync_insert(th, remote) ==
    LET person_id == Head(pc[th].todo)
        rows == insert_all(pc[th].rows, person_id, remote.embeddings[person_id])
    IN  /\ pc[th].at = "inserting"
        /\ pc[th].todo # <<>>
        /\ pc[th].members =
              {remote.member_person_ids[i] : i \in 1..Len(remote.member_person_ids)}
        /\ pc' = [pc EXCEPT ![th].rows = rows, ![th].todo = Tail(pc[th].todo),
                            ![th].at = IF Tail(pc[th].todo) = <<>> THEN "commit"
                                       ELSE "inserting"]
        /\ embeddings' = read_committed(embeddings, rows)
        /\ UNCHANGED <<face_app, persons, group_members, _group_members_cache,
                       now, call, resp>>

\* conn.commit(); conn.close()
sync_commit(th) ==
    /\ pc[th].at = "commit"
    /\ embeddings' = pc[th].rows
    /\ group_members' = {m \in group_members : m[1] # pc[th].group_id} \cup
                        {<<pc[th].group_id, p>> : p \in pc[th].members}
    /\ pc' = [pc EXCEPT ![th].at = "pop", ![th].rows = <<>>]
    /\ UNCHANGED <<face_app, persons, _group_members_cache, now, call, resp>>

\* _group_members_cache.pop(req.group_id, None); return {"success": True, ...}
sync_pop(th) ==
    /\ pc[th].at = "pop"
    /\ _group_members_cache' =
          [_group_members_cache EXCEPT ![pc[th].group_id] = NoCacheEntry]
    /\ pc' = [pc EXCEPT ![th] = NoThread]
    /\ UNCHANGED <<face_app, persons, embeddings, group_members, now, call, resp>>

\* POST /recognize on a thread, for a request that names a group and no
\* filter_ids and whose image shows a face; the extractor is initialised.
\* get_group_members_cached up to its SELECT: a fresh entry is returned as
\* it is, otherwise the members are read from the committed table.
recognize_select(th, group_id) ==
    LET cached == _group_members_cache[group_id]
        hit == cached.present /\ (now - cached.at) < _GROUP_MEMBERS_TTL_SECONDS
    IN  /\ pc[th].at = "idle"
        /\ face_app # "None"
        /\ pc' = [pc EXCEPT ![th] =
                     [NoThread EXCEPT !.at = IF hit THEN "load" ELSE "store",
                                      !.group_id = group_id,
                                      !.t = now,
                                      !.members = IF hit THEN cached.members
                                                  ELSE Members(group_members, group_id)]]
        /\ UNCHANGED <<face_app, persons, embeddings, group_members,
                       _group_members_cache, now, call, resp>>

\* _group_members_cache[group_id] = (now, members); return members
recognize_store(th) ==
    /\ pc[th].at = "store"
    /\ _group_members_cache' =
          [_group_members_cache EXCEPT
              ![pc[th].group_id] = [present |-> TRUE, at |-> pc[th].t,
                                    members |-> pc[th].members]]
    /\ pc' = [pc EXCEPT ![th].at = "load"]
    /\ UNCHANGED <<face_app, persons, embeddings, group_members, now, call, resp>>

\* enrolled = load_embeddings(filter_ids): one SELECT on a new connection
recognize_load(th) ==
    /\ pc[th].at = "load"
    /\ pc' = [pc EXCEPT ![th].at = "loaded",
                        ![th].rows = load_embeddings([given |-> TRUE,
                                                      ids |-> pc[th].members])]
    /\ UNCHANGED <<face_app, persons, embeddings, group_members,
                   _group_members_cache, now, call, resp>>

\* the faces are matched against the loaded rows as in recognize, and the
\* handler returns
recognize_return(th) ==
    /\ pc[th].at = "loaded"
    /\ pc' = [pc EXCEPT ![th] = NoThread]
    /\ UNCHANGED <<face_app, persons, embeddings, group_members,
                   _group_members_cache, now, call, resp>>

\* -------------------------------------------------------- specifications
Filters == {NoFilter} \cup {[given |-> TRUE, ids |-> S] : S \in SUBSET PersonIds}
Timings == UNION {[1..n -> FaceDurations] : n \in 0..MaxFaces}
Clock == {t \in {now + d : d \in ClockSteps} : t <= MaxTime}

\* Sequential requests against a store whose writes succeed.
Next ==
    \/ \E ok \in BOOLEAN : init(ok) /\ UNCHANGED aside
    \/ \E p \in PersonIds, n \in PersonNames, image \in Images :
          enroll(p, n, image, TRUE) /\ UNCHANGED aside
    \/ \E f \in Filters, g \in GroupIds \cup {NoGroup}, image \in Images :
          \E durs \in {d \in Timings : Len(d) = Len(image)}, t \in Clock :
              recognize(f, g, image, durs, t) /\ UNCHANGED aside
    \/ \E g \in GroupIds, p \in PersonIds : add_member(g, p) /\ UNCHANGED aside
    \/ \E g \in GroupIds, p \in PersonIds : remove_member(g, p) /\ UNCHANGED aside
    \/ \E p \in PersonIds : delete_person(p) /\ UNCHANGED aside
    \/ \E g \in GroupIds : delete_group(g) /\ UNCHANGED aside
    \/ reply /\ UNCHANGED aside

Spec == Init /\ [][Next]_vars

\* A service that is initialised and holds one embedding of alice (the state
\* after init and one enroll) is sent batches of up to MaxBatch faces: each
\* iteration of the loop takes the same time d, or the timings of Spec.
BatchImage(n) == [i \in 1..n |-> <<"fa", "fb", "fc">>[((i - 1) % 3) + 1]]
BatchTimings(n) ==
    {[i \in 1..n |-> d] : d \in 1..(TIME_BUDGET + 1)} \cup {d \in Timings : Len(d) = n}

InitBudget ==
    /\ face_app = "FaceAnalysis"
    /\ persons = {[person_id |-> "alice", person_name |-> "Ann", email |-> "NULL"]}
    /\ embeddings = <<[person_id |-> "alice",
                       embedding |-> l2_normalize(Face("fa").normed_embedding)]>>
    /\ group_members = {}
    /\ _group_members_cache = [g \in GroupIds |-> NoCacheEntry]
    /\ now = 0
    /\ call = NoCall
    /\ resp = Response("none", 0, "")
    /\ changed_at = NeverChanged
    /\ pc = [th \in Threads |-> NoThread]
    /\ events = <<>>

NextBudget ==
    \/ \E n \in 0..MaxBatch : \E durs \in BatchTimings(n) :
          recognize(NoFilter, NoGroup, BatchImage(n), durs, now) /\ UNCHANGED aside
    \/ reply /\ UNCHANGED aside

SpecBudget == InitBudget /\ [][NextBudget]_vars

\* Every writer of the local store, with two names for a person, failing
\* writes and the answers of the remote service.
StoreNames == {"Ann", "Bea"}
\* the ids uuid4 can return
FreshIds == {"uuid1"}
SupabaseClients == {"None", "Client"}
\* images with no face, an acceptable face, a face too small, two faces
StoreImages == {<<>>, <<"fa">>, <<"fc">>, <<"fb", "fa">>}
\* one photo, or four photos of which some show no face and one shows only
\* a face too small for the quality gate
Photos == {<<<<"fa">>>>,
           <<<<>>, <<>>, <<>>, <<>>>>,
           <<<<"fa">>, <<>>, <<>>, <<>>>>,
           <<<<>>, <<>>, <<"fc">>, <<>>>>,
           <<<<>>, <<"fc", "fb">>, <<>>, <<"fa">>>>}
Pendings == {[found |-> FALSE, photo_urls |-> <<>>]} \cup
            {[found |-> TRUE, photo_urls |-> ph] : ph \in Photos}
\* embeddings as the remote face_embeddings table returns them
RemoteVectors == {<<100, 0>>, <<200, 0>>}
RemoteRows == {<<>>} \cup {<<v>> : v \in RemoteVectors}
Remotes ==
    {[found |-> FALSE, member_person_ids |-> <<>>, embeddings |-> [p \in PersonIds |-> <<>>]]}
    \cup {[found |-> TRUE, member_person_ids |-> ms, embeddings |-> es] :
             ms \in DistinctSeqs(PersonIds, 2), es \in [PersonIds -> RemoteRows]}

NextStore ==
    \/ \E ok \in BOOLEAN : init(ok) /\ UNCHANGED aside
    \/ \E p \in PersonIds, n \in StoreNames, image \in StoreImages, stored \in BOOLEAN :
          enroll(p, n, image, stored) /\ UNCHANGED aside
    \/ \E p \in PersonIds, n \in StoreNames : create_person(p, n) /\ UNCHANGED aside
    \/ \E sb \in SupabaseClients, p \in PersonIds, ph \in Photos, ok \in BOOLEAN :
          enroll_person_direct(sb, p, ph, ok) /\ UNCHANGED aside
    \/ \E sb \in SupabaseClients, pd \in Pendings, u \in FreshIds, ok \in BOOLEAN :
          process_pending_enrollment(sb, pd, u, ok) /\ UNCHANGED aside
    \/ \E sb \in SupabaseClients, g \in GroupIds, r \in Remotes, ok \in BOOLEAN :
          sync_group_embeddings(sb, g, r, ok) /\ UNCHANGED aside
    \/ \E p \in PersonIds \cup FreshIds : delete_person(p) /\ UNCHANGED aside
    \/ clear /\ UNCHANGED aside
    \/ reply /\ UNCHANGED aside

SpecStore == Init /\ [][NextStore]_vars

\* The quality gate on its own: the pixel statistics and the eye landmarks
\* of a face are drawn at the start, and the gate is applied to the metrics
\* _compute_quality_metrics gives for them.
WidthInputs == {80, 119, 120, 200}
SharpnessInputs == {99, 100, 400}
BrightnessInputs == {59, 60, 130, 200, 201}
ContrastInputs == {29, 30, 50}
\* no landmarks, one point, eyes above one another (dx = 0), level eyes, a
\* roll of about 6 degrees, of about 11 degrees, and eyes swapped (dx < 0)
KpsInputs == {<<>>,
              <<<<50, 80>>>>,
              <<<<50, 80>>, <<50, 120>>>>,
              <<<<50, 80>>, <<150, 80>>>>,
              <<<<50, 80>>, <<150, 90>>>>,
              <<<<50, 80>>, <<150, 100>>>>,
              <<<<150, 80>>, <<50, 80>>>>}
MetricInputs ==
    {[face_width_px |-> w, sharpness |-> s, brightness |-> b, contrast |-> c,
      roll_abs |-> NoRoll] :
        w \in WidthInputs, s \in SharpnessInputs, b \in BrightnessInputs,
        c \in ContrastInputs}

InitQuality ==
    /\ face_app = "FaceAnalysis"
    /\ persons = {}
    /\ embeddings = <<>>
    /\ group_members = {}
    /\ _group_members_cache = [g \in GroupIds |-> NoCacheEntry]
    /\ now = 0
    /\ \E m \in MetricInputs, k \in KpsInputs :
          call = [NoCall EXCEPT !.ready = TRUE, !.metrics = m, !.kps = k]
    /\ resp = Response("none", 0, "")
    /\ changed_at = NeverChanged
    /\ pc = [th \in Threads |-> NoThread]
    /\ events = <<>>

\* metrics = _compute_quality_metrics(...); passed, reasons = _quality_pass(metrics)
quality_check ==
    LET roll_abs == _compute_quality_metrics(<<"fa">>, Face("fa").bbox, call.kps).roll_abs
        metrics == [call.metrics EXCEPT !.roll_abs = roll_abs]
        quality == _quality_pass(metrics)
    IN  /\ Idle
        /\ resp' = [Response("quality", 200, IF quality.ok THEN "passed" ELSE "failed")
                       EXCEPT !.metrics = metrics, !.reasons = quality.reasons]
        /\ UNCHANGED <<face_app, persons, embeddings, group_members,
                       _group_members_cache, now, call>>

NextQuality ==
    \/ quality_check /\ UNCHANGED aside
    \/ reply /\ UNCHANGED aside

SpecQuality == InitQuality /\ [][NextQuality]_vars

\* Every handler that needs the extractor, before and after /init.
NextReady ==
    \/ \E ok \in BOOLEAN : init(ok) /\ UNCHANGED aside
    \/ \E image \in Images : detect(image) /\ UNCHANGED aside
    \/ \E image \in Images : photo_quality(image) /\ UNCHANGED aside
    \/ \E image \in Images : get_embedding(image) /\ UNCHANGED aside
    \/ \E image \in Images : validate_face(image) /\ UNCHANGED aside
    \/ \E image \in Images : process_video_frame(image) /\ UNCHANGED aside
    \/ \E p \in PersonIds, n \in PersonNames, image \in Images :
          enroll(p, n, image, TRUE) /\ UNCHANGED aside
    \/ \E image \in Images :
          recognize(NoFilter, NoGroup, image, [i \in 1..Len(image) |-> 2], now)
             /\ UNCHANGED aside
    \/ reply /\ UNCHANGED aside

SpecReady == Init /\ [][NextReady]_vars

\* The membership cache under a finer clock.  The store starts with one
\* embedding of each person; requests and membership changes interleave in
\* any order while the clock advances in steps of ClockTick seconds up to
\* MaxClock.  changed_at follows the time of the last committed change of
\* each group.  A change committed while a lookup is between its SELECT and
\* its cache write leaves the entry a change at the lookup's own clock
\* reading leaves here, so changes at the reading of the last lookup stand
\* for them.
MaxClock == 120
ClockTick == 30

\* the history variable: the clock at every step that changes a membership
Track ==
    changed_at' = [g \in GroupIds |->
                      IF Members(group_members', g) # Members(group_members, g)
                      THEN now' ELSE changed_at[g]]

\* time.time() moves on between two requests
tick ==
    /\ Idle
    /\ now + ClockTick <= MaxClock
    /\ now' = now + ClockTick
    /\ UNCHANGED <<face_app, persons, embeddings, group_members, _group_members_cache,
                   call, resp>>

InitCache ==
    /\ face_app = "FaceAnalysis"
    /\ persons = {[person_id |-> p, person_name |-> "Ann", email |-> "NULL"] : p \in PersonIds}
    /\ embeddings = <<[person_id |-> "alice",
                       embedding |-> l2_normalize(Face("fa").normed_embedding)],
                      [person_id |-> "bob",
                       embedding |-> l2_normalize(Face("fb").normed_embedding)]>>
    /\ group_members = {}
    /\ _group_members_cache = [g \in GroupIds |-> NoCacheEntry]
    /\ now = 0
    /\ call = NoCall
    /\ resp = Response("none", 0, "")
    /\ changed_at = NeverChanged
    /\ pc = [th \in Threads |-> NoThread]
    /\ events = <<>>

\* what the remote tables hold for a synced group: its members, each with
\* one unit embedding
CacheRemotes ==
    {[found |-> TRUE, member_person_ids |-> ms,
      embeddings |-> [p \in PersonIds |-> <<<<100, 0>>>>]] :
         ms \in DistinctSeqs(PersonIds, 2)}

NextCache ==
    \/ \E g \in GroupIds, image \in {<<"fa">>, <<"fb">>} :
          recognize(NoFilter, g, image, <<2>>, now) /\ Track /\ UNCHANGED <<pc, events>>
    \/ \E g \in GroupIds, p \in PersonIds : add_member(g, p) /\ Track /\ UNCHANGED <<pc, events>>
    \/ \E g \in GroupIds, p \in PersonIds : remove_member(g, p) /\ Track /\ UNCHANGED <<pc, events>>
    \/ \E p \in PersonIds : delete_person(p) /\ Track /\ UNCHANGED <<pc, events>>
    \/ \E g \in GroupIds : delete_group(g) /\ Track /\ UNCHANGED <<pc, events>>
    \/ \E g \in GroupIds, r \in CacheRemotes :
          sync_group_embeddings("Client", g, r, TRUE) /\ Track /\ UNCHANGED <<pc, events>>
    \/ tick /\ Track /\ UNCHANGED <<pc, events>>
    \/ reply /\ Track /\ UNCHANGED <<pc, events>>

SpecCache == InitCache /\ [][NextCache]_vars

\* Concurrent /init calls on the threads of the pool, with /detect requests
\* using whatever extractor is installed.
NextInit ==
    \/ \E th \in Threads : init_test(th) /\ UNCHANGED <<changed_at, events>>
    \/ \E th \in Threads, ok \in BOOLEAN :
          init_construct(th, ok) /\ UNCHANGED <<changed_at, events>>
    \/ \E th \in Threads : init_install(th) /\ UNCHANGED <<changed_at, events>>
    \/ \E image \in Images : detect(image) /\ UNCHANGED aside
    \/ reply /\ UNCHANGED aside

SpecInit == Init /\ [][NextInit]_vars

\* Concurrent /sync_group_embeddings and /recognize requests on an
\* initialised service.  The store starts with one embedding of each person
\* and alice in the group; the remote group holds bob, or bob and alice, with
\* embeddings that differ from the local ones.
InitTxRows ==
    <<[person_id |-> "alice", embedding |-> l2_normalize(Face("fa").normed_embedding)],
      [person_id |-> "bob", embedding |-> l2_normalize(Face("fb").normed_embedding)]>>

TxRemotes ==
    {[found |-> TRUE, member_person_ids |-> ms,
      embeddings |-> [p \in PersonIds |->
                         IF p = "alice" THEN <<<<0, 100>>>>
                         ELSE <<<<60, 80>>, <<80, 60>>>>]] :
         ms \in {<<"bob">>, <<"bob", "alice">>}}

InitTx ==
    /\ face_app = "FaceAnalysis"
    /\ persons = {[person_id |-> p, person_name |-> "Ann", email |-> "NULL"] : p \in PersonIds}
    /\ embeddings = InitTxRows
    /\ group_members = {<<"g1", "alice">>}
    /\ _group_members_cache = [g \in GroupIds |-> NoCacheEntry]
    /\ now = 0
    /\ call = NoCall
    /\ resp = Response("none", 0, "")
    /\ changed_at = NeverChanged
    /\ pc = [th \in Threads |-> NoThread]
    /\ events = <<>>

NextTx ==
    \/ \E th \in Threads, g \in GroupIds, r \in TxRemotes :
          sync_delete(th, g, r) /\ Track /\ UNCHANGED events
    \/ \E th \in Threads, r \in TxRemotes : sync_insert(th, r) /\ Track /\ UNCHANGED events
    \/ \E th \in Threads : sync_commit(th) /\ Track /\ UNCHANGED events
    \/ \E th \in Threads : sync_pop(th) /\ Track /\ UNCHANGED events
    \/ \E th \in Threads, g \in GroupIds :
          recognize_select(th, g) /\ Track /\ UNCHANGED events
    \/ \E th \in Threads : recognize_store(th) /\ Track /\ UNCHANGED events
    \/ \E th \in Threads : recognize_load(th) /\ Track /\ UNCHANGED events
    \/ \E th \in Threads : recognize_return(th) /\ Track /\ UNCHANGED events
    \/ tick /\ Track /\ UNCHANGED <<pc, events>>

SpecTx == InitTx /\ [][NextTx]_vars

\* /enroll_person_direct on an initialised service that holds one embedding
\* of each person, with photo lists of three, four and five photos.
DirectPhotos == {<<<<"fa">>, <<"fb">>, <<"fc">>>>,
                 <<<<>>, <<>>, <<>>, <<>>>>,
                 <<<<>>, <<>>, <<>>, <<"fa">>>>,
                 <<<<"fa">>, <<"fb">>, <<"fc">>, <<"fc", "fb">>>>,
                 <<<<"fa">>, <<>>, <<"fb">>, <<>>, <<"fc">>>>,
                 <<<<"fb">>, <<"fb">>, <<"fa">>, <<"fa">>, <<"fc">>>>}

InitDirect ==
    /\ face_app = "FaceAnalysis"
    /\ persons = {[person_id |-> p, person_name |-> "Ann", email |-> "NULL"] : p \in PersonIds}
    /\ embeddings = <<[person_id |-> "alice",
                       embedding |-> l2_normalize(Face("fc").normed_embedding)],
                      [person_id |-> "bob",
                       embedding |-> l2_normalize(Face("fc").normed_embedding)]>>
    /\ group_members = {}
    /\ _group_members_cache = [g \in GroupIds |-> NoCacheEntry]
    /\ now = 0
    /\ call = NoCall
    /\ resp = Response("none", 0, "")
    /\ changed_at = NeverChanged
    /\ pc = [th \in Threads |-> NoThread]
    /\ events = <<>>

NextDirect ==
    \/ \E sb \in SupabaseClients, p \in PersonIds, ph \in DirectPhotos, ok \in BOOLEAN :
          enroll_person_direct(sb, p, ph, ok) /\ UNCHANGED aside
    \/ reply /\ UNCHANGED aside

SpecDirect == InitDirect /\ [][NextDirect]_vars

\* One report on a service that is initialised and holds one embedding of
\* alice: the frames of a video are sent to both endpoints, in any order.
Timestamps == {0, 5}
ReportImages == {<<>>, <<"fa">>, <<"fb">>, <<"fa", "fb">>}

NextReport ==
    \/ \E image \in ReportImages, ts \in Timestamps :
          recognize_reported(image, [i \in 1..Len(image) |-> 2], ts)
             /\ UNCHANGED <<changed_at, pc>>
    \/ \E image \in ReportImages, ts \in Timestamps :
          process_video_frame_reported(image, ts) /\ UNCHANGED <<changed_at, pc>>
    \/ reply /\ UNCHANGED aside

SpecReport == InitBudget /\ [][NextReport]_vars

\* Photos whose face reaches the edge of the frame, sent to /photo/quality
\* and /enroll.
EdgeImages == {<<"fa">>, <<"fc">>, <<"fd">>, <<"fe">>, <<"ff">>, <<"fc", "fe">>}

NextEdge ==
    \/ \E ok \in BOOLEAN : init(ok) /\ UNCHANGED aside
    \/ \E image \in EdgeImages : photo_quality(image) /\ UNCHANGED aside
    \/ \E p \in PersonIds, n \in PersonNames, image \in EdgeImages :
          enroll(p, n, image, TRUE) /\ UNCHANGED aside
    \/ reply /\ UNCHANGED aside

SpecEdge == Init /\ [][NextEdge]_vars

\* The person rows of a store that also holds embeddings and memberships.
Emails == {"NULL", "ann@example.org"}

NextPerson ==
    \/ \E ok \in BOOLEAN : init(ok) /\ UNCHANGED aside
    \/ \E p \in PersonIds, n \in StoreNames, e \in Emails :
          update_person(p, n, e) /\ UNCHANGED aside
    \/ \E p \in PersonIds, n \in StoreNames : create_person(p, n) /\ UNCHANGED aside
    \/ \E p \in PersonIds, n \in StoreNames :
          enroll(p, n, <<"fa">>, TRUE) /\ UNCHANGED aside
    \/ \E g \in GroupIds, p \in PersonIds : add_member(g, p) /\ UNCHANGED aside
    \/ reply /\ UNCHANGED aside

SpecPerson == Init /\ [][NextPerson]_vars

\* ------------------------------------------------------------ properties
\* What the properties say of a recognize response is stated from the request
\* and the rows the handler loaded, without the handler's own operators for
\* the choice of the candidate, the threshold test and the budget test.
Similarity(row, id) ==
    dot(l2_normalize(row.embedding), l2_normalize(Face(id).normed_embedding))

TopScore(rows, id) ==
    CHOOSE s \in {Similarity(rows[k], id) : k \in 1..Len(rows)} :
        \A k \in 1..Len(rows) : Similarity(rows[k], id) <= s

Accepted(score) == score * 100 >= THRESHOLD * Scale

BoxOf(id) ==
    LET b == Face(id).bbox
    IN  [x |-> b[1], y |-> b[2], width |-> b[3] - b[1], height |-> b[4] - b[2]]

\* the per-face loop of the last recognize call ran
Served == resp.op = "recognize" /\ call.enrolled # <<>>

RECURSIVE Elapsed(_, _)
Elapsed(durs, k) == IF k = 0 THEN 0 ELSE Elapsed(durs, k - 1) + durs[k]

\* C1: a recognize call given a group id and no explicit filter, for a group
\* that has at least one member in the store, returns no match whose person
\* is outside the membership resolved for the request.
GroupFilterRespected ==
    ( /\ resp.op = "recognize"
      /\ ~call.filter_ids.given
      /\ call.group_id # NoGroup
      /\ \E m \in group_members : m[1] = call.group_id )
    => \A j \in 1..Len(resp.faces) : resp.faces[j].person_id \in call.resolved.ids

\* C2: a recognize call with a group id whose resolved member list is empty
\* returns an empty match list, whatever other persons are enrolled.
EmptyGroupEmptyResult ==
    ( /\ resp.op = "recognize"
      /\ ~call.filter_ids.given
      /\ call.group_id # NoGroup
      /\ call.resolved.ids = {} )
    => resp.faces = <<>>

\* C3: for every processed face exactly one match is emitted, with the top-1
\* similarity as confidence and a person that attains it, when the top-1
\* similarity is at least the threshold, and none otherwise.
TopOneDecision ==
    Served =>
        \A i \in 1..call.processed :
            LET id == call.image[i]
                top == TopScore(call.enrolled, id)
                ms == {j \in 1..Len(resp.faces) : resp.faces[j].box = BoxOf(id)}
            IN  IF Accepted(top)
                THEN /\ Cardinality(ms) = 1
                     /\ \A j \in ms :
                           /\ resp.faces[j].confidence = top
                           /\ \E k \in 1..Len(call.enrolled) :
                                 /\ call.enrolled[k].person_id = resp.faces[j].person_id
                                 /\ Similarity(call.enrolled[k], id) = top
                ELSE ms = {}

\* a face whose top-1 similarity is exactly the threshold was matched
TopOneAtThreshold ==
    /\ Served
    /\ \E i \in 1..call.processed :
          /\ TopScore(call.enrolled, call.image[i]) * 100 = THRESHOLD * Scale
          /\ \E j \in 1..Len(resp.faces) : resp.faces[j].box = BoxOf(call.image[i])

\* C4: every match names the person of the first loaded row that attains the
\* maximum similarity to its face.
FirstOfLoaded(rows, id) ==
    CHOOSE k \in 1..Len(rows) :
        /\ Similarity(rows[k], id) = TopScore(rows, id)
        /\ \A l \in 1..(k - 1) : Similarity(rows[l], id) < TopScore(rows, id)

TieFirstWins ==
    Served =>
        \A j \in 1..Len(resp.faces) :
            \E i \in 1..call.processed :
                /\ resp.faces[j].box = BoxOf(call.image[i])
                /\ resp.faces[j].person_id =
                      call.enrolled[FirstOfLoaded(call.enrolled, call.image[i])].person_id

\* two rows of different persons tie for the maximum and the first is reported
TieReported ==
    /\ Served
    /\ \E j \in 1..Len(resp.faces), i \in 1..call.processed :
          /\ resp.faces[j].box = BoxOf(call.image[i])
          /\ \E k \in 1..Len(call.enrolled), l \in 1..Len(call.enrolled) :
                /\ k < l
                /\ Similarity(call.enrolled[k], call.image[i]) = resp.faces[j].confidence
                /\ Similarity(call.enrolled[l], call.image[i]) = resp.faces[j].confidence
                /\ call.enrolled[k].person_id # call.enrolled[l].person_id
                /\ resp.faces[j].person_id = call.enrolled[k].person_id

\* C5: the loop stops after the first face at which the elapsed time has
\* reached the budget, the response is a success holding the matches of the
\* processed faces only, and faces of 0.1 s each are cut off by the 8th.
BudgetCutoff ==
    Served =>
        LET n == Len(call.image)
            p == call.processed
        IN  /\ resp.status = 200
            /\ p \in 1..n
            /\ p = n \/ Elapsed(call.durs, p) >= TIME_BUDGET
            /\ \A k \in 1..(p - 1) : Elapsed(call.durs, k) < TIME_BUDGET
            /\ Len(resp.faces) =
                  Cardinality({i \in 1..p : Accepted(TopScore(call.enrolled, call.image[i]))})
            /\ \A j \in 1..Len(resp.faces) :
                  \E i \in 1..p : resp.faces[j].box = BoxOf(call.image[i])
            /\ (\A i \in 1..n : call.durs[i] = 1) => p <= 8

\* 20 faces of 0.1 s each: the loop stopped early with a partial result
BatchCutOff ==
    /\ Served
    /\ Len(call.image) = 20
    /\ \A i \in 1..20 : call.durs[i] = 1
    /\ call.processed < 20
    /\ resp.faces # <<>>

\* C6: with the service initialised, recognize answers 200; zero faces, no
\* candidate rows, or no candidate at the threshold give an empty list, and
\* the list never holds more matches than faces were processed.
NoMatchIsNotAnError ==
    (resp.op = "recognize" /\ call.ready) =>
        /\ resp.status = 200
        /\ call.image = <<>> => resp.faces = <<>>
        /\ call.enrolled = <<>> => resp.faces = <<>>
        /\ (\A i \in 1..call.processed :
               ~Accepted(TopScore(call.enrolled, call.image[i]))) => resp.faces = <<>>
        /\ Len(resp.faces) <= call.processed

\* candidates were loaded, none reached the threshold, the answer is 200 and empty
NothingRecognized ==
    /\ Served
    /\ call.ready
    /\ resp.status = 200
    /\ resp.faces = <<>>
    /\ call.processed >= 1
    /\ \A i \in 1..call.processed : ~Accepted(TopScore(call.enrolled, call.image[i]))

\* C7: the rows loaded by recognize are those of the explicit filter whenever
\* one is given (the empty list too), else those of the resolved group
\* members when a group id is given, else every row.
RowsOf(ids) == SelectSeq(embeddings, LAMBDA row : row.person_id \in ids)

CandidatePriority ==
    (resp.op = "recognize" /\ call.ready /\ call.image # <<>>) =>
        call.enrolled =
            IF call.filter_ids.given THEN RowsOf(call.filter_ids.ids)
            ELSE IF call.group_id # NoGroup THEN RowsOf(call.resolved.ids)
            ELSE embeddings

\* C8: an enroll call whose selected face fails the quality gate answers 400
\* "Photo quality too low for enrollment" with the metrics and the reasons of
\* that face, and changes neither persons nor embeddings.
GateOk(m) ==
    /\ m.face_width_px >= 120
    /\ m.sharpness >= 100
    /\ 60 <= m.brightness /\ m.brightness <= 200
    /\ m.contrast >= 30

SelectedMetrics(c) ==
    LET f == Face(c.image[c.selected])
    IN  _compute_quality_metrics(c.image, f.bbox, f.kps)

QualityRejectionLeavesStore ==
    [][ ( /\ resp'.op = "enroll"
          /\ call'.ready
          /\ call'.image # <<>>
          /\ call'.selected \in 1..Len(call'.image)
          /\ ~GateOk(SelectedMetrics(call')) )
        => /\ resp'.status = 400
           /\ resp'.detail = "Photo quality too low for enrollment"
           /\ resp'.metrics = SelectedMetrics(call')
           /\ resp'.reasons = _quality_pass(SelectedMetrics(call')).reasons
           /\ resp'.reasons # <<>>
           /\ persons' = persons
           /\ embeddings' = embeddings ]_vars

\* a rejected enroll against a store that already holds rows
QualityRejected ==
    /\ resp.op = "enroll"
    /\ resp.status = 400
    /\ resp.detail = "Photo quality too low for enrollment"
    /\ resp.reasons # <<>>
    /\ ~GateOk(resp.metrics)
    /\ embeddings # <<>>
    /\ \A r \in persons : r.person_id # call.person_id

\* C9: an enroll call on an image without faces answers 400 "No face
\* detected" and changes neither persons nor embeddings.
NoFaceLeavesStore ==
    [][ (resp'.op = "enroll" /\ call'.ready /\ call'.image = <<>>)
        => /\ resp'.status = 400
           /\ resp'.detail = "No face detected"
           /\ persons' = persons
           /\ embeddings' = embeddings ]_vars

\* a no-face enroll against a store that already holds rows
NoFaceRejected ==
    /\ resp.op = "enroll"
    /\ call.ready
    /\ call.image = <<>>
    /\ resp.status = 400
    /\ embeddings # <<>>
    /\ \A r \in persons : r.person_id # call.person_id

\* C10: enroll uses the first face, in the extractor's order, among those of
\* the largest bounding-box area: its embedding is the one stored, its
\* metrics are the ones reported on rejection.
FirstLargest(image) ==
    CHOOSE s \in 1..Len(image) :
        /\ \A j \in 1..Len(image) : area(Face(image[j])) <= area(Face(image[s]))
        /\ \A j \in 1..(s - 1) : area(Face(image[j])) < area(Face(image[s]))

LargestFaceSelected ==
    (resp.op = "enroll" /\ call.ready /\ call.image # <<>>) =>
        LET f == Face(call.image[FirstLargest(call.image)])
        IN  /\ call.selected = FirstLargest(call.image)
            /\ resp.status = 200 =>
                  /\ embeddings # <<>>
                  /\ embeddings[Len(embeddings)] =
                        [person_id |-> call.person_id,
                         embedding |-> l2_normalize(f.normed_embedding)]
            /\ resp.status # 200 =>
                  resp.metrics = _compute_quality_metrics(call.image, f.bbox, f.kps)

\* two faces of equal largest area: the first one was enrolled
TieEnrolled ==
    /\ resp.op = "enroll"
    /\ resp.status = 200
    /\ Len(call.image) >= 2
    /\ \E j \in 2..Len(call.image) :
          /\ area(Face(call.image[j])) = area(Face(call.image[1]))
          /\ Face(call.image[j]).normed_embedding # Face(call.image[1]).normed_embedding
    /\ call.selected = 1
    /\ embeddings[Len(embeddings)].embedding =
          l2_normalize(Face(call.image[1]).normed_embedding)

\* ------------------------------------------------- properties of the store
RowsOwned(rows, p) == Len(SelectSeq(rows, LAMBDA row : row.person_id = p))

\* C11: a successful enroll for person p appends exactly one row owned by p
\* and keeps every existing row as it was, so p owns one row more and every
\* other person as many as before.
EnrollAppendsOneRow ==
    [][ (resp'.op = "enroll" /\ resp'.status = 200)
        => /\ Len(embeddings') = Len(embeddings) + 1
           /\ \A i \in 1..Len(embeddings) : embeddings'[i] = embeddings[i]
           /\ embeddings'[Len(embeddings')].person_id = call'.person_id
           /\ \A p \in PersonIds \cup FreshIds :
                 RowsOwned(embeddings', p) =
                    RowsOwned(embeddings, p) + (IF p = call'.person_id THEN 1 ELSE 0) ]_vars

\* the second successful enroll of the same person
EnrolledTwice ==
    /\ resp.op = "enroll"
    /\ resp.status = 200
    /\ RowsOwned(embeddings, call.person_id) = 2

\* C12: an enroll call leaves every existing person row as it was, whatever
\* name the request carries, and adds a row only for its own person_id when
\* that person had none.
EnrollKeepsPersonRows ==
    [][ resp'.op = "enroll"
        => /\ \A r \in persons : r \in persons'
           /\ \A r \in persons' \ persons :
                 /\ r.person_id = call'.person_id
                 /\ \A q \in persons : q.person_id # r.person_id ]_vars

\* a successful enroll that carries another name than the stored one
EnrolledUnderOtherName ==
    /\ resp.op = "enroll"
    /\ resp.status = 200
    /\ \E r \in persons :
          r.person_id = call.person_id /\ r.person_name # call.person_name

\* C13: an enroll call whose embedding insert fails persists nothing, and no
\* enroll call adds a person row without an embedding row of that person.
EnrollAllOrNothing ==
    [][ resp'.op = "enroll"
        => /\ resp'.status # 200 => (persons' = persons /\ embeddings' = embeddings)
           /\ \A r \in persons' \ persons :
                 RowsOwned(embeddings', r.person_id) >= 1 ]_vars

\* the insert failed for a person the store does not know
EnrollInsertFailed ==
    /\ resp.op = "enroll"
    /\ resp.status = 500
    /\ call.selected >= 1
    /\ \A r \in persons : r.person_id # call.person_id

\* ----------------------------------------- properties of the quality gate
Has(reasons, r) == \E i \in 1..Len(reasons) : reasons[i] = r

\* C14: the gate passes exactly when width >= 120, sharpness >= 100,
\* 60 <= brightness <= 200 and contrast >= 30; each violated condition gives
\* its own reason, a passing face without roll has no reason, and a face
\* narrower than 120 px has the too-small reason.
GateLimits ==
    resp.op = "quality" =>
        LET m == resp.metrics
        IN  /\ (resp.detail = "passed") <=> GateOk(m)
            /\ Has(resp.reasons, "Face too small (<120 px)") <=> m.face_width_px < 120
            /\ Has(resp.reasons, "Too blurry (low sharpness)") <=> m.sharpness < 100
            /\ Has(resp.reasons, "Lighting issue (too dark/bright)")
                  <=> (m.brightness < 60 \/ m.brightness > 200)
            /\ Has(resp.reasons, "Low contrast") <=> m.contrast < 30
            /\ (GateOk(m) /\ ~m.roll_abs.defined) => resp.reasons = <<>>

\* a face at the limits (120 px, sharpness 100, brightness 200, contrast 30)
\* passes without a reason
PassedAtTheLimits ==
    /\ resp.op = "quality"
    /\ resp.detail = "passed"
    /\ resp.reasons = <<>>
    /\ resp.metrics.face_width_px = 120
    /\ resp.metrics.sharpness = 100
    /\ resp.metrics.brightness = 200
    /\ resp.metrics.contrast = 30

\* C15: the result of the gate is the same for every roll value; the
\* turn-head-straighter reason is reported exactly for a defined roll over
\* 10 degrees, and the roll is undefined without two landmarks or with the
\* eyes at the same x.
RollValues == {NoRoll, [defined |-> TRUE, over10 |-> FALSE],
               [defined |-> TRUE, over10 |-> TRUE]}

RollIsAdvisory ==
    resp.op = "quality" =>
        LET m == resp.metrics
            k == call.kps
        IN  /\ \A r \in RollValues :
                  _quality_pass([m EXCEPT !.roll_abs = r]).ok = (resp.detail = "passed")
            /\ Has(resp.reasons, "Turn head straighter (reduce roll)")
                  <=> (m.roll_abs.defined /\ m.roll_abs.over10)
            /\ m.roll_abs.defined <=> (Len(k) >= 2 /\ k[2][1] # k[1][1])
            /\ ~m.roll_abs.defined => m.roll_abs = NoRoll

\* a face with a roll over 10 degrees passes, with the advisory reason only
PassedWithRoll ==
    /\ resp.op = "quality"
    /\ resp.detail = "passed"
    /\ resp.metrics.roll_abs.defined
    /\ resp.metrics.roll_abs.over10
    /\ resp.reasons = <<"Turn head straighter (reduce roll)">>

\* --------------------------------------- properties of the extractor guard
ExtractorOps == {"detect", "photo_quality", "get_embedding", "enroll", "recognize",
                 "validate_face", "process_video_frame"}

\* C16: while the extractor is not initialised, each of detect, photo
\* quality, embedding, enroll, recognize, validate-face and
\* process-video-frame answers 400 "Service not initialized", reports
\* nothing computed from the photo and changes neither the store nor the
\* extractor.
RefusedUntilInitialized ==
    [][ (face_app = "None" /\ resp'.op \in ExtractorOps)
        => /\ resp'.status = 400
           /\ resp'.detail = "Service not initialized"
           /\ resp'.faces = <<>>
           /\ resp'.metrics = NoMetrics
           /\ resp'.reasons = <<>>
           /\ call'.selected = 0
           /\ persons' = persons
           /\ embeddings' = embeddings
           /\ group_members' = group_members
           /\ face_app' = face_app ]_vars

\* ------------------------------------------- invariants of the local store
\* C17: every stored embedding row is owned by a person of the persons
\* table.
EmbeddingsOwned ==
    \A i \in 1..Len(embeddings) :
        \E r \in persons : r.person_id = embeddings[i].person_id

\* unit length, within the rounding of the fixed-point grid
IsUnit(vec) == Abs(vec[1] * vec[1] + vec[2] * vec[2] - Scale * Scale) <= 2 * Scale

\* C18: every stored embedding is unit-length, whichever writer stored it.
EmbeddingsUnit ==
    \A i \in 1..Len(embeddings) : IsUnit(embeddings[i].embedding)

\* ------------------------------------------------ properties of deletion
\* C19: when delete_person(p) returns the store holds no embedding row and
\* no membership of p, and a recognize call returns only persons that own an
\* embedding row when it runs: a deleted person is not returned until a
\* writer stores a row for it again, whatever filter or group the call
\* carries and whatever the membership cache still holds.
DeletedNeverReturned ==
    [][ /\ resp'.op = "delete_person"
           => /\ RowsOwned(embeddings', call'.person_id) = 0
              /\ \A m \in group_members' : m[2] # call'.person_id
              /\ \A r \in persons' : r.person_id # call'.person_id
        /\ resp'.op = "recognize"
           => /\ embeddings' = embeddings
              /\ \A j \in 1..Len(resp'.faces) :
                    RowsOwned(embeddings, resp'.faces[j].person_id) >= 1 ]_vars

\* a person is deleted while the membership cache still lists it and rows
\* of another person remain
DeletedWhileCached ==
    /\ resp.op = "delete_person"
    /\ \E g \in GroupIds :
          /\ _group_members_cache[g].present
          /\ call.person_id \in _group_members_cache[g].members
    /\ embeddings # <<>>

\* ------------------------------------------ properties of the member cache
\* C20: a recognize call that resolves group g a full TTL or more after the
\* last committed change of g's membership uses the membership as it is
\* after that change.
StaleAtMostTTL ==
    ( /\ resp.op = "recognize"
      /\ call.group_id \in GroupIds
      /\ call.resolved.given
      /\ now - changed_at[call.group_id] >= _GROUP_MEMBERS_TTL_SECONDS )
    => call.resolved.ids = Members(group_members, call.group_id)

\* exactly one TTL after a change, a call re-reads the membership the cache
\* had held before the change and finds the new members
RefreshedAtTTL ==
    /\ resp.op = "recognize"
    /\ call.group_id \in GroupIds
    /\ changed_at[call.group_id] >= 0
    /\ now - changed_at[call.group_id] = _GROUP_MEMBERS_TTL_SECONDS
    /\ _group_members_cache[call.group_id].at = now
    /\ call.resolved.ids # {}
    /\ call.resolved.ids = Members(group_members, call.group_id)

\* C21: across any interleaving of concurrent init calls an installed
\* extractor is never replaced or reset, no second extractor is constructed
\* beside an installed one, and a failed init leaves the service
\* uninitialized.
InitOnce ==
    [][ /\ face_app # "None" => face_app' = face_app
        /\ \A th \in Threads :
              (pc[th].at = "construct" /\ pc'[th].at = "idle") => face_app' = face_app
        /\ ~(face_app' # "None" /\ \E th \in Threads : pc'[th].fa # "None") ]_vars

\* the embeddings table after one whole sync of the remote group
Synced(rows, remote) ==
    LET ids == {remote.member_person_ids[i] : i \in 1..Len(remote.member_person_ids)}
    IN  insert_remote(SelectSeq(rows, LAMBDA row : row.person_id \notin ids),
                      remote.member_person_ids, remote.embeddings)

\* the tables that whole transactions, one after another, lead to
RECURSIVE WholeStates(_)
WholeStates(S) ==
    LET T == S \cup {Synced(rows, r) : rows \in S, r \in TxRemotes}
    IN  IF T = S THEN S ELSE WholeStates(T)

\* C22: what a recognize call running beside store writers loads is the
\* selection, by the ids it resolved, of a table that whole transactions
\* lead to: never a table with a sync's rows deleted and not yet inserted
\* again, nor one with part of a writer's rows.
LoadsWholeTransactions ==
    \A th \in Threads :
        pc[th].at = "loaded" =>
            \E w \in WholeStates({InitTxRows}) :
                pc[th].rows = IF pc[th].members # {}
                              THEN SelectSeq(w, LAMBDA row : row.person_id \in pc[th].members)
                              ELSE w

\* a call has loaded the rows while a sync has deleted the members' rows and
\* inserted some of the new ones
LoadedDuringSync ==
    \E th \in Threads, w \in Threads :
        /\ pc[th].at = "loaded"
        /\ pc[w].at = "inserting"
        /\ pc[w].rows # embeddings
        /\ Len(pc[w].todo) = 1
        /\ pc[th].rows # <<>>

\* C24: once every sync of group g that changed its membership has
\* returned, a recognize call that resolves g gets the membership the table
\* holds, whatever calls were resolving g while the sync ran.
ResolvesSyncedMembers ==
    [][ \A th \in Threads :
          ( /\ pc[th].at = "idle"
            /\ pc'[th].at \in {"store", "load"}
            /\ changed_at[pc'[th].group_id] >= 0
            /\ \A w \in Threads : pc[w].at \notin {"commit", "pop"} )
          => pc'[th].members = Members(group_members, pc'[th].group_id) ]_vars

\* C23: on every enrollment entry point a request that is turned down for
\* showing no face, or for bringing fewer than 4 photos, is answered with a
\* 4xx status.
RejectedAsClientError ==
    LET none_shown == \A i \in 1..Len(call.photos) : i <= 4 => call.photos[i] = <<>>
    IN  /\ ( /\ resp.op = "enroll"
             /\ call.ready
             /\ call.image = <<>> )
           => resp.status \in 400..499
        /\ ( /\ resp.op \in {"enroll_person_direct", "process_pending_enrollment"}
             /\ call.ready
             /\ call.supabase # "None" /\ call.remote_ok /\ call.found
             /\ (Len(call.photos) < 4 \/ none_shown) )
           => resp.status \in 400..499

EnrollOps == {"enroll", "enroll_person_direct", "process_pending_enrollment"}

\* the photos of an enrollment request
RequestImages(c) == {c.image} \cup {c.photos[i] : i \in 1..Len(c.photos)}

\* C26: every embedding an enrollment entry point writes to the local store
\* is that of a face, in a photo of the request, that passes the quality
\* gate.
StoredPassedGate ==
    [][ (resp'.op \in EnrollOps /\ resp'.status = 200) =>
           \A k \in 1..Len(embeddings') :
              ( /\ embeddings'[k].person_id = call'.person_id
                /\ (resp'.op = "enroll" => k = Len(embeddings')) )
              => \E image \in RequestImages(call') : \E i \in 1..Len(image) :
                    LET f == Face(image[i])
                    IN  /\ embeddings'[k].embedding = l2_normalize(f.normed_embedding)
                        /\ _quality_pass(_compute_quality_metrics(image, f.bbox, f.kps)).ok
      ]_vars

\* the photos, among the first four of the request, that show a face
Shown(photos) ==
    SelectSeq([i \in 1..Min(4, Len(photos)) |-> photos[i]], LAMBDA ph : ph # <<>>)

\* C27: after a successful enroll_person_direct for p the store holds for p
\* one embedding for each of the first four photos that shows a face, that
\* of a face of the largest area in the photo, in the order of the photos,
\* and nothing else; they are between 1 and 4; the rows of every other
\* person are as before.
DirectReplacesRows ==
    [][ (resp'.op = "enroll_person_direct" /\ resp'.status = 200) =>
           LET p == call'.person_id
               mine == SelectSeq(embeddings', LAMBDA row : row.person_id = p)
               shown == Shown(call'.photos)
           IN  /\ Len(mine) = Len(shown)
               /\ Len(mine) \in 1..4
               /\ \A k \in 1..Len(mine) :
                     \E i \in 1..Len(shown[k]) :
                        /\ \A j \in 1..Len(shown[k]) :
                              area(Face(shown[k][j])) <= area(Face(shown[k][i]))
                        /\ mine[k].embedding = l2_normalize(Face(shown[k][i]).normed_embedding)
               /\ SelectSeq(embeddings', LAMBDA row : row.person_id # p)
                    = SelectSeq(embeddings, LAMBDA row : row.person_id # p) ]_vars

\* a call with five photos that all show a face has left four embeddings in
\* the place of the person's earlier one
FiveShownFourStored ==
    /\ resp.op = "enroll_person_direct"
    /\ resp.status = 200
    /\ Len(call.photos) = 5
    /\ call.photos[5] # <<>>
    /\ Len(SelectSeq(embeddings, LAMBDA row : row.person_id = call.person_id)) = 4
    /\ \A k \in 1..Len(embeddings) :
          embeddings[k].person_id = call.person_id
             => embeddings[k].embedding # l2_normalize(Face("fc").normed_embedding)

\* C25: after a sync of group g that reports success the local members of g
\* are the members the remote group has, also when it has none.
SyncMirrorsMembers ==
    ( /\ resp.op = "sync_group_embeddings"
      /\ resp.status = 200
      /\ call.found )
    => Members(group_members, call.group_id)
          = {call.member_person_ids[i] : i \in 1..Len(call.member_person_ids)}

\* C28: a report never holds a recognized event and an unknown detected
\* event of the same timestamp whose boxes overlap with IoU >= 0.5,
\* whichever endpoint was called first for the frame.
NoUnknownForRecognized ==
    \A i, j \in 1..Len(events) :
        ~ ( /\ events[i].type = "recognized"
            /\ events[j].type = "detected"
            /\ events[i].timestamp = events[j].timestamp
            /\ LET a == events[i].box
                   b == events[j].box
                   w == Min(a.x + a.width, b.x + b.width) - Max(a.x, b.x)
                   h == Min(a.y + a.height, b.y + b.height) - Max(a.y, b.y)
               IN  /\ w > 0 /\ h > 0
                   /\ 2 * w * h >= a.width * a.height + b.width * b.height - w * h )

\* C29: the face width in the metrics of a photo is x2 - x1 of the bounding
\* box of the face the handler selected, as the detector gave it.
WidthOfDetectedBox ==
    ( /\ resp.op \in {"photo_quality", "enroll"}
      /\ call.selected > 0
      /\ resp.metrics # NoMetrics )
    => LET bbox == Face(call.image[call.selected]).bbox
       IN  resp.metrics.face_width_px = bbox[3] - bbox[1]

\* C30: create_person on a person_id that exists leaves the other columns
\* of the person's row, the embeddings and the memberships as they were.
CreateKeepsOtherColumns ==
    [][ (resp'.op = "create_person" /\ \E r \in persons : r.person_id = call'.person_id) =>
           /\ \A r \in persons : r.person_id = call'.person_id =>
                 \E q \in persons' : q.person_id = r.person_id /\ q.email = r.email
           /\ \A r \in persons : r.person_id # call'.person_id => r \in persons'
           /\ embeddings' = embeddings
           /\ group_members' = group_members ]_vars

====
